---------------------------- MODULE Spec2Model ----------------------------
(***************************************************************************)
(* Model of the span-event-to-log connector                                *)
(* (spaneventtologconnector/connector.go, config/config.go).               *)
(*                                                                         *)
(* Strings that the code inspects character by character (severity        *)
(* strings, event names, keys of severity_by_event_name) are sequences of  *)
(* one-character strings; attribute keys and configuration option names    *)
(* are only ever compared for equality and stay TLA+ strings.              *)
(***************************************************************************)
EXTENDS Integers, Sequences, FiniteSets, TLC

VARIABLES
    config,        \* Connector.config (and the receiver of Config.Validate)
    eventNameSet,  \* Connector.eventNameSet
    traces,        \* the caller's ptrace.Traces: under construction, then consumed
    allLogs,       \* the plog.Logs batches the logs consumer received (LogsSink.AllLogs)
    consumerErrs,  \* what the logs consumer returned to each of these calls
    ret,           \* what the call on `traces` returned (an error or Nil), once made
    severity,      \* a severity string: the argument of mapSeverity
    mapped,        \* <<>>, or <<the result of mapSeverity(severity)>> once called
    calls          \* for each goroutine inside ConsumeTraces: its argument and locals

vars == <<config, eventNameSet, traces, allLogs, consumerErrs, ret, severity, mapped, calls>>

Nil == "nil"

\* Value of ret before the call
NotCalled == "not called"

(***************************************************************************)
(* Strings                                                                 *)
(***************************************************************************)
Upper == <<"A","B","C","D","E","F","G","H","I","J","K","L","M",
           "N","O","P","Q","R","S","T","U","V","W","X","Y","Z">>
Lower == <<"a","b","c","d","e","f","g","h","i","j","k","l","m",
           "n","o","p","q","r","s","t","u","v","w","x","y","z">>

\* strings.ToLower on one character
ToLowerChar(c) ==
    IF \E i \in DOMAIN Upper : Upper[i] = c
    THEN Lower[CHOOSE i \in DOMAIN Upper : Upper[i] = c]
    ELSE c

\* strings.ToLower
ToLower(s) == [i \in 1..Len(s) |-> ToLowerChar(s[i])]

\* strings.ToUpper on one character (used only to build inputs)
ToUpperChar(c) ==
    IF \E i \in DOMAIN Lower : Lower[i] = c
    THEN Upper[CHOOSE i \in DOMAIN Lower : Lower[i] = c]
    ELSE c

ToUpper(s) == [i \in 1..Len(s) |-> ToUpperChar(s[i])]

\* strings.HasSuffix
HasSuffix(s, suffix) ==
    /\ Len(s) >= Len(suffix)
    /\ SubSeq(s, Len(s) - Len(suffix) + 1, Len(s)) = suffix

\* strings.TrimSuffix
TrimSuffix(s, suffix) ==
    IF HasSuffix(s, suffix) THEN SubSeq(s, 1, Len(s) - Len(suffix)) ELSE s

\* strings.HasPrefix
HasPrefix(s, prefix) ==
    /\ Len(s) >= Len(prefix)
    /\ SubSeq(s, 1, Len(prefix)) = prefix

\* strings.Contains
Contains(s, substr) ==
    \E i \in 0..(Len(s) - Len(substr)) : SubSeq(s, i + 1, i + Len(substr)) = substr

t_trace   == <<"t","r","a","c","e">>
t_debug   == <<"d","e","b","u","g">>
t_info    == <<"i","n","f","o">>
t_warn    == <<"w","a","r","n">>
t_error   == <<"e","r","r","o","r">>
t_fatal   == <<"f","a","t","a","l">>
t_warning == <<"w","a","r","n","i","n","g">>
t_err     == <<"e","r","r">>
t_empty   == <<>>

(***************************************************************************)
(* plog.SeverityNumber                                                     *)
(***************************************************************************)
SeverityNumberUnspecified == 0
SeverityNumberTrace  == 1
SeverityNumberTrace2 == 2
SeverityNumberTrace3 == 3
SeverityNumberTrace4 == 4
SeverityNumberDebug  == 5
SeverityNumberDebug2 == 6
SeverityNumberDebug3 == 7
SeverityNumberDebug4 == 8
SeverityNumberInfo   == 9
SeverityNumberInfo2  == 10
SeverityNumberInfo3  == 11
SeverityNumberInfo4  == 12
SeverityNumberWarn   == 13
SeverityNumberWarn2  == 14
SeverityNumberWarn3  == 15
SeverityNumberWarn4  == 16
SeverityNumberError  == 17
SeverityNumberError2 == 18
SeverityNumberError3 == 19
SeverityNumberError4 == 20
SeverityNumberFatal  == 21
SeverityNumberFatal2 == 22
SeverityNumberFatal3 == 23
SeverityNumberFatal4 == 24

\* severityMappings: the canonical (number, text) table
severityMappings == <<
    [number |-> SeverityNumberTrace,  text |-> t_trace],
    [number |-> SeverityNumberTrace2, text |-> t_trace \o <<"2">>],
    [number |-> SeverityNumberTrace3, text |-> t_trace \o <<"3">>],
    [number |-> SeverityNumberTrace4, text |-> t_trace \o <<"4">>],
    [number |-> SeverityNumberDebug,  text |-> t_debug],
    [number |-> SeverityNumberDebug2, text |-> t_debug \o <<"2">>],
    [number |-> SeverityNumberDebug3, text |-> t_debug \o <<"3">>],
    [number |-> SeverityNumberDebug4, text |-> t_debug \o <<"4">>],
    [number |-> SeverityNumberInfo,   text |-> t_info],
    [number |-> SeverityNumberInfo2,  text |-> t_info \o <<"2">>],
    [number |-> SeverityNumberInfo3,  text |-> t_info \o <<"3">>],
    [number |-> SeverityNumberInfo4,  text |-> t_info \o <<"4">>],
    [number |-> SeverityNumberWarn,   text |-> t_warn],
    [number |-> SeverityNumberWarn2,  text |-> t_warn \o <<"2">>],
    [number |-> SeverityNumberWarn3,  text |-> t_warn \o <<"3">>],
    [number |-> SeverityNumberWarn4,  text |-> t_warn \o <<"4">>],
    [number |-> SeverityNumberError,  text |-> t_error],
    [number |-> SeverityNumberError2, text |-> t_error \o <<"2">>],
    [number |-> SeverityNumberError3, text |-> t_error \o <<"3">>],
    [number |-> SeverityNumberError4, text |-> t_error \o <<"4">>],
    [number |-> SeverityNumberFatal,  text |-> t_fatal],
    [number |-> SeverityNumberFatal2, text |-> t_fatal \o <<"2">>],
    [number |-> SeverityNumberFatal3, text |-> t_fatal \o <<"3">>],
    [number |-> SeverityNumberFatal4, text |-> t_fatal \o <<"4">>] >>

\* The loop that generates severityToTextMap: m[mapping.number] = mapping.text
NumberToTextOf(mappings) ==
    [n \in {mappings[i].number : i \in DOMAIN mappings} |->
        mappings[CHOOSE i \in DOMAIN mappings :
                     /\ mappings[i].number = n
                     /\ \A j \in DOMAIN mappings : mappings[j].number = n => j <= i].text]

severityToTextMap == NumberToTextOf(severityMappings)

\* The aliases the second generating loop adds: "warning" beside "warn", "err"
\* beside "error".
severityAliases ==
    {[alias |-> t_warning, of |-> t_warn], [alias |-> t_err, of |-> t_error]}

\* The loop that generates textToSeverityMap: m[mapping.text] = mapping.number,
\* and m[alias] = mapping.number for the texts that have an alias
TextToNumberOf(mappings, aliases) ==
    [t \in {mappings[i].text : i \in DOMAIN mappings}
           \cup {a.alias : a \in {b \in aliases :
                                     \E i \in DOMAIN mappings : mappings[i].text = b.of}} |->
        mappings[CHOOSE i \in DOMAIN mappings :
                     \/ mappings[i].text = t
                     \/ \E a \in aliases : a.alias = t /\ a.of = mappings[i].text].number]

textToSeverityMap == TextToNumberOf(severityMappings, severityAliases)

NoMatch == [number |-> SeverityNumberUnspecified, text |-> t_empty]

\* A hit of mapSeverity: the number found and its canonical text
SeverityHit(severityNumber, toText) ==
    [number |-> severityNumber, text |-> toText[severityNumber]]

\* Variant of the lookups with the direct lookup only
LookupDirect(lowerSeverity, toNumber, toText) ==
    IF lowerSeverity \in DOMAIN toNumber
    THEN [number |-> toNumber[lowerSeverity], text |-> toText[toNumber[lowerSeverity]]]
    ELSE [number |-> SeverityNumberUnspecified, text |-> t_empty]

\* The lookups of mapSeverity on the lower-cased string
LookupSeverity(lowerSeverity, toNumber, toText) ==
    IF lowerSeverity \in DOMAIN toNumber
    THEN \* direct mappings and aliases
         SeverityHit(toNumber[lowerSeverity], toText)
    ELSE IF /\ HasSuffix(lowerSeverity, <<"1">>)
            /\ TrimSuffix(lowerSeverity, <<"1">>) \in DOMAIN toNumber
    THEN \* numbered variants ending in "1"
         SeverityHit(toNumber[TrimSuffix(lowerSeverity, <<"1">>)], toText)
    ELSE IF /\ HasPrefix(lowerSeverity, t_warning)
            /\ Len(lowerSeverity) > 7
            /\ (t_warn \o SubSeq(lowerSeverity, 8, Len(lowerSeverity))) \in DOMAIN toNumber
    THEN \* numbered warning variants
         SeverityHit(toNumber[t_warn \o SubSeq(lowerSeverity, 8, Len(lowerSeverity))], toText)
    ELSE NoMatch

\* mapSeverity: a severity string (case-insensitive) to (number, canonical text);
\* (SeverityNumberUnspecified, "") when the string is no valid severity.
mapSeverity(sev) == LookupSeverity(ToLower(sev), textToSeverityMap, severityToTextMap)

\* Variant that gives "info" for every number
SeverityTextInfo(severityNumber) == t_info

\* severityNumberToText: canonical text of a number, "info" for unmapped numbers
severityNumberToText(severityNumber) ==
    IF severityNumber \in DOMAIN severityToTextMap
    THEN severityToTextMap[severityNumber]
    ELSE t_info


(***************************************************************************)
(* pcommon.Value and pcommon.Map                                           *)
(*                                                                         *)
(* A value carries its type.  An Int is a 64-bit integer, kept as its high *)
(* and low 32-bit halves (each read as a signed 32-bit number).  A Map has *)
(* unique keys and is kept as a function from its keys to values.          *)
(***************************************************************************)
ValueTypeStr  == "Str"
ValueTypeInt  == "Int"
ValueTypeBool == "Bool"

StrValue(s)      == [type |-> ValueTypeStr, str |-> s]
IntValue(hi, lo) == [type |-> ValueTypeInt, hi |-> hi, lo |-> lo]
BoolValue(b)     == [type |-> ValueTypeBool, bool |-> b]

EmptyMap == [k \in {} |-> Nil]

\* Map.Get: the second result
Has(m, k) == k \in DOMAIN m

\* Map.PutStr / Map.PutEmpty followed by Value.CopyTo: insert or overwrite
Put(m, k, v) == [x \in DOMAIN m \cup {k} |-> IF x = k THEN v ELSE m[x]]

\* Map.Range with a Put of every entry into dest, as the span attribute copy does
PutAll(dest, src) ==
    [x \in DOMAIN dest \cup DOMAIN src |-> IF x \in DOMAIN src THEN src[x] ELSE dest[x]]

\* plog.SeverityNumber(v.Int()): conversion of an int64 to the int32 ordinal
\* keeps the low 32 bits
SeverityNumberOfInt(v) == v.lo

(***************************************************************************)
(* Connector.shouldCopyAttributes                                          *)
(***************************************************************************)
shouldCopyAttributes(cfg, source) ==
    \E i \in DOMAIN cfg.LogAttributesFrom : cfg.LogAttributesFrom[i] = source

(***************************************************************************)
(* Connector.populateLogRecord, severity part                              *)
(*                                                                         *)
(* The resolution state is (severityNumber, severityText, severityFound).  *)
(***************************************************************************)
DefaultSeverity ==
    [severityNumber |-> SeverityNumberInfo, severityText |-> t_info, severityFound |-> FALSE]

Found(severityNumber, severityText) ==
    [severityNumber |-> severityNumber, severityText |-> severityText, severityFound |-> TRUE]

\* The mapped severity number, and the text derived from it
AdoptNumber(n) == Found(n, severityNumberToText(n))

\* 1. AttributeMappings.SeverityNumber: an Int attribute of the event
MappedSeverityNumber(cfg, event, st) ==
    IF /\ cfg.AttributeMappings.SeverityNumber # ""
       /\ Has(event.Attributes, cfg.AttributeMappings.SeverityNumber)
       /\ event.Attributes[cfg.AttributeMappings.SeverityNumber].type = ValueTypeInt
    THEN AdoptNumber(SeverityNumberOfInt(event.Attributes[cfg.AttributeMappings.SeverityNumber]))
    ELSE st

\* Variant that keeps the mapped severity text raw and never parses it
AdoptTextRaw(st, raw, parsed) ==
    [severityNumber |-> st.severityNumber, severityText |-> raw, severityFound |-> TRUE]

\* Variant in which a mapped severity text that the parser rejects does not
\* count as a result of the stage
AdoptTextUnlessRejected(st, raw, parsed) ==
    IF ~st.severityFound /\ parsed.number # SeverityNumberUnspecified
    THEN Found(parsed.number, parsed.text)
    ELSE [severityNumber |-> st.severityNumber, severityText |-> raw,
          severityFound |-> st.severityFound]

\* The mapped severity text `raw`: parsed when no number was mapped, else kept raw
AdoptText(st, raw, parsed) ==
    IF ~st.severityFound /\ parsed.number # SeverityNumberUnspecified
    THEN Found(parsed.number, parsed.text)
    ELSE Found(st.severityNumber, raw)

\* 1. AttributeMappings.SeverityText: a Str attribute of the event
MappedSeverityText(cfg, event, st) ==
    IF /\ cfg.AttributeMappings.SeverityText # ""
       /\ Has(event.Attributes, cfg.AttributeMappings.SeverityText)
       /\ event.Attributes[cfg.AttributeMappings.SeverityText].type = ValueTypeStr
    THEN AdoptText(st, event.Attributes[cfg.AttributeMappings.SeverityText].str,
                   mapSeverity(event.Attributes[cfg.AttributeMappings.SeverityText].str))
    ELSE st

\* 1. Check AttributeMappings for severity (highest precedence)
SeverityFromAttributeMappings(cfg, event, st) ==
    IF cfg.AttributeMappings.SeverityNumber # "" \/ cfg.AttributeMappings.SeverityText # ""
    THEN MappedSeverityText(cfg, event, MappedSeverityNumber(cfg, event, st))
    ELSE st

\* Variant that adopts every parsed severity, the no-match result included
AdoptAlways(st, parsed) ==
    [severityNumber |-> parsed.number, severityText |-> parsed.text, severityFound |-> TRUE]

\* Variant of stage 2 that runs also when stage 1 has found a severity
SeverityAttributeUnguarded(cfg, event, st) ==
    IF /\ cfg.SeverityAttribute # ""
       /\ cfg.SeverityAttribute \in DOMAIN event.Attributes
       /\ event.Attributes[cfg.SeverityAttribute].type = "Str"
       /\ mapSeverity(event.Attributes[cfg.SeverityAttribute].str).number # SeverityNumberUnspecified
    THEN [severityNumber |-> mapSeverity(event.Attributes[cfg.SeverityAttribute].str).number,
          severityText |-> mapSeverity(event.Attributes[cfg.SeverityAttribute].str).text,
          severityFound |-> TRUE]
    ELSE st

\* A parsed severity is adopted unless it is the no-match result
AdoptParsed(st, parsed) ==
    IF parsed.number # SeverityNumberUnspecified
    THEN Found(parsed.number, parsed.text)
    ELSE st

\* 2. Check SeverityAttribute
SeverityFromSeverityAttribute(cfg, event, st) ==
    IF /\ ~st.severityFound
       /\ cfg.SeverityAttribute # ""
       /\ Has(event.Attributes, cfg.SeverityAttribute)
       /\ event.Attributes[cfg.SeverityAttribute].type = ValueTypeStr
    THEN AdoptParsed(st, mapSeverity(event.Attributes[cfg.SeverityAttribute].str))
    ELSE st

\* One iteration of the range over SeverityByEventName, for a key and the parsed
\* severity configured for it: m = (longestMatchKeyLen, matchedSeverityText)
MatchStep(lowerEventName, m, key, parsed) ==
    IF /\ Contains(lowerEventName, ToLower(key))
       /\ Len(key) > m.longestMatchKeyLen
       /\ parsed.number # SeverityNumberUnspecified
    THEN [longestMatchKeyLen |-> Len(key), matchedSeverityText |-> parsed.text]
    ELSE m

\* The range loop over the map, its keys visited in the order `order`
RECURSIVE MatchLoop(_, _, _, _)
MatchLoop(cfg, lowerEventName, m, order) ==
    IF order = <<>>
    THEN m
    ELSE MatchLoop(cfg, lowerEventName,
                   MatchStep(lowerEventName, m, Head(order),
                             mapSeverity(cfg.SeverityByEventName[Head(order)])),
                   Tail(order))

\* After the loop: the matched canonical text is mapped again to (number, text)
AdoptMatch(st, m) ==
    IF m.matchedSeverityText # t_empty
    THEN AdoptParsed(st, mapSeverity(m.matchedSeverityText))
    ELSE st

\* 3. Check SeverityByEventName (substring match, longest precedence)
SeverityFromEventName(cfg, event, st, order) ==
    IF ~st.severityFound /\ Cardinality(DOMAIN cfg.SeverityByEventName) > 0
    THEN AdoptMatch(st, MatchLoop(cfg, ToLower(event.Name),
                                  [longestMatchKeyLen |-> 0, matchedSeverityText |-> t_empty],
                                  order))
    ELSE st

\* The severity populateLogRecord sets on the record
ResolveSeverity(cfg, event, order) ==
    SeverityFromEventName(cfg, event,
        SeverityFromSeverityAttribute(cfg, event,
            SeverityFromAttributeMappings(cfg, event, DefaultSeverity)),
        order)

(***************************************************************************)
(* Connector.populateLogRecord                                             *)
(***************************************************************************)
k_level      == "level"
k_traceState == "trace.state"
k_spanName   == "span.name"
k_spanKind   == "span.kind"

EmptyTraceID == 0
EmptySpanID  == 0

\* LogRecords().AppendEmpty(): a record with every field at its zero value
NewLogRecord ==
    [Timestamp |-> 0, ObservedTimestamp |-> 0,
     SeverityNumber |-> SeverityNumberUnspecified, SeverityText |-> t_empty,
     Body |-> [type |-> "Empty"], Attributes |-> EmptyMap,
     TraceID |-> EmptyTraceID, SpanID |-> EmptySpanID]

\* Set timestamps and the determined severity st
SetSeverity(logRecord, event, st, now) ==
    [logRecord EXCEPT !.Timestamp = event.Timestamp,
                      !.ObservedTimestamp = now,
                      !.SeverityNumber = st.severityNumber,
                      !.SeverityText = st.severityText]

\* Variant in which the body is always the event name
SetBodyFromName(logRecord, cfg, event) ==
    [logRecord EXCEPT !.Body = [type |-> "Str", str |-> event.Name]]

\* Set body using attribute mapping or fallback to event name
SetBody(logRecord, cfg, event) ==
    IF /\ cfg.AttributeMappings.Body # ""
       /\ Has(event.Attributes, cfg.AttributeMappings.Body)
       /\ event.Attributes[cfg.AttributeMappings.Body].type = ValueTypeStr
    THEN [logRecord EXCEPT !.Body = StrValue(event.Attributes[cfg.AttributeMappings.Body].str)]
    ELSE [logRecord EXCEPT !.Body = StrValue(event.Name)]

\* Copy event attributes if configured (Map.CopyTo replaces the destination)
CopyEventAttributes(logRecord, cfg, event) ==
    IF shouldCopyAttributes(cfg, "event.attributes")
    THEN [logRecord EXCEPT !.Attributes = event.Attributes]
    ELSE logRecord

\* Variant that leaves an attribute the record already has under the key
PutEventNameIfAbsent(logRecord, cfg, event) ==
    IF /\ cfg.AttributeMappings.EventName # ""
       /\ cfg.AttributeMappings.EventName \notin DOMAIN logRecord.Attributes
    THEN [logRecord EXCEPT !.Attributes =
              [k \in DOMAIN @ \cup {cfg.AttributeMappings.EventName} |->
                  IF k = cfg.AttributeMappings.EventName
                  THEN [type |-> "Str", str |-> event.Name]
                  ELSE @[k]]]
    ELSE logRecord

\* Preserve event name as attribute if configured
PutEventName(logRecord, cfg, event) ==
    IF cfg.AttributeMappings.EventName # ""
    THEN [logRecord EXCEPT !.Attributes =
              Put(@, cfg.AttributeMappings.EventName, StrValue(event.Name))]
    ELSE logRecord

\* Variant that never writes the level attribute
AddLevelNever(logRecord, cfg) == logRecord

\* Variant that writes the level attribute whether or not it is present
AddLevelAlways(logRecord, cfg) ==
    IF cfg.AddLevel
    THEN [logRecord EXCEPT !.Attributes =
              [k \in DOMAIN @ \cup {"level"} |->
                  IF k = "level" THEN [type |-> "Str", str |-> logRecord.SeverityText] ELSE @[k]]]
    ELSE logRecord

\* Variant in which a key the record already has keeps its value
MergeSpanAttributes(logRecord, cfg, span) ==
    IF \E n \in DOMAIN cfg.LogAttributesFrom : cfg.LogAttributesFrom[n] = "span.attributes"
    THEN [logRecord EXCEPT !.Attributes =
              [k \in DOMAIN @ \cup DOMAIN span.Attributes |->
                  IF k \in DOMAIN @ THEN @[k] ELSE span.Attributes[k]]]
    ELSE logRecord

\* Add level attribute if configured and not already present
AddLevel(logRecord, cfg) ==
    IF cfg.AddLevel /\ ~Has(logRecord.Attributes, k_level)
    THEN [logRecord EXCEPT !.Attributes = Put(@, k_level, StrValue(logRecord.SeverityText))]
    ELSE logRecord

\* Copy span attributes if configured
CopySpanAttributes(logRecord, cfg, span) ==
    IF shouldCopyAttributes(cfg, "span.attributes")
    THEN [logRecord EXCEPT !.Attributes = PutAll(@, span.Attributes)]
    ELSE logRecord

\* SpanKind.String()
t_Unspecified == <<"U","n","s","p","e","c","i","f","i","e","d">>
t_Internal    == <<"I","n","t","e","r","n","a","l">>
t_Server      == <<"S","e","r","v","e","r">>
t_Client      == <<"C","l","i","e","n","t">>
t_Producer    == <<"P","r","o","d","u","c","e","r">>
t_Consumer    == <<"C","o","n","s","u","m","e","r">>

SpanKindString(kind) ==
    CASE kind = "SpanKindInternal" -> t_Internal
      [] kind = "SpanKindServer"   -> t_Server
      [] kind = "SpanKindClient"   -> t_Client
      [] kind = "SpanKindProducer" -> t_Producer
      [] kind = "SpanKindConsumer" -> t_Consumer
      [] OTHER                     -> t_Unspecified

\* Variant that writes "trace.state" also when the trace state is empty
AddSpanContextWithState(logRecord, cfg, span) ==
    IF cfg.IncludeSpanContext
    THEN [logRecord EXCEPT
             !.TraceID = span.TraceID,
             !.SpanID = span.SpanID,
             !.Attributes =
                 [k \in DOMAIN @ \cup {"trace.state", "span.name", "span.kind"} |->
                     IF k = "trace.state" THEN [type |-> "Str", str |-> span.TraceState]
                     ELSE IF k = "span.name" THEN [type |-> "Str", str |-> span.Name]
                     ELSE IF k = "span.kind" THEN [type |-> "Str", str |-> SpanKindString(span.Kind)]
                     ELSE @[k]]]
    ELSE logRecord

\* Add trace and span ID fields if configured
AddSpanContext(logRecord, cfg, span) ==
    IF cfg.IncludeSpanContext
    THEN [logRecord EXCEPT
             !.TraceID = span.TraceID,
             !.SpanID = span.SpanID,
             !.Attributes =
                 Put(Put(IF span.TraceState # t_empty
                         THEN Put(@, k_traceState, StrValue(span.TraceState))
                         ELSE @,
                         k_spanName, StrValue(span.Name)),
                     k_spanKind, StrValue(SpanKindString(span.Kind)))]
    ELSE logRecord

\* populateLogRecord: the record built from a span event.  `order` is the order
\* in which this call's range visits the keys of SeverityByEventName, `now` the
\* value of time.Now().
populateLogRecord(cfg, logRecord, event, span, order, now) ==
    AddSpanContext(
        CopySpanAttributes(
            AddLevel(
                PutEventName(
                    CopyEventAttributes(
                        SetBody(SetSeverity(logRecord, event, ResolveSeverity(cfg, event, order), now),
                                cfg, event),
                        cfg, event),
                    cfg, event),
                cfg),
            cfg, span),
        cfg, span)

(***************************************************************************)
(* Batches                                                                 *)
(*                                                                         *)
(* ptrace.Traces: a sequence of ResourceSpans                              *)
(*   [Resource |-> [Attributes], ScopeSpans |-> a sequence of              *)
(*     [Scope |-> [Name, Version], Spans |-> a sequence of                 *)
(*       [Name, Kind, TraceID, SpanID, TraceState, Attributes,             *)
(*        Events |-> a sequence of [Name, Timestamp, Attributes]]]]        *)
(* plog.Logs: a sequence of ResourceLogs                                   *)
(*   [Resource |-> [Attributes], ScopeLogs |-> a sequence of               *)
(*     [Scope |-> [Name, Version], LogRecords |-> a sequence of records]]  *)
(*                                                                         *)
(* pcommon.Resource and pcommon.InstrumentationScope are wrappers around a *)
(* pointer into the batch that owns the object; Go's == on them compares   *)
(* the pointers.  A wrapper is modelled as the place it points to: the     *)
(* batch and the path inside it.                                           *)
(***************************************************************************)
InTraces == "traces"
InLogs   == "logs"

\* ResourceSpans.Resource() / ResourceLogs.Resource()
ResourceAt(batch, i) == [batch |-> batch, path |-> <<i>>]

\* ScopeSpans.Scope() / ScopeLogs.Scope()
ScopeAt(batch, i, j) == [batch |-> batch, path |-> <<i, j>>]

\* plog.NewLogs()
NewLogs == <<>>

RECURSIVE SumLen(_, _)
SumLen(seq, field) ==
    IF seq = <<>> THEN 0 ELSE Len(Head(seq)[field]) + SumLen(Tail(seq), field)

RECURSIVE Flatten(_, _)
Flatten(seq, field) ==
    IF seq = <<>> THEN <<>> ELSE Head(seq)[field] \o Flatten(Tail(seq), field)

\* Logs.LogRecordCount()
LogRecordCount(logs) == SumLen(Flatten(logs, "ScopeLogs"), "LogRecords")

\* The indexes of the ResourceLogs of logs whose Resource() == res
SameResource(logs, res) == {n \in 1..Len(logs) : ResourceAt(InLogs, n) = res}

\* The indexes of the ScopeLogs, inside ResourceLogs n, whose Scope() == scope
SameScope(logs, n, scope) ==
    {j \in 1..Len(logs[n].ScopeLogs) : ScopeAt(InLogs, n, j) = scope}

Least(S) == CHOOSE n \in S : \A m \in S : n <= m

\* Variant that takes the first ResourceLogs of the batch, whatever its resource
findFirstOrCreateResourceLogs(logs, res, content) ==
    IF logs # <<>>
    THEN [logs |-> logs, at |-> 1, created |-> FALSE]
    ELSE [logs |-> Append(logs, [Resource |-> content, ScopeLogs |-> <<>>]),
          at |-> Len(logs) + 1,
          created |-> TRUE]

\* findOrCreateResourceLogs: the first ResourceLogs whose Resource() == res, or
\* a new ResourceLogs appended with a copy of the resource `content`.
findOrCreateResourceLogs(logs, res, content) ==
    IF SameResource(logs, res) # {}
    THEN [logs |-> logs, at |-> Least(SameResource(logs, res)), created |-> FALSE]
    ELSE [logs |-> Append(logs, [Resource |-> content, ScopeLogs |-> <<>>]),
          at |-> Len(logs) + 1,
          created |-> TRUE]

\* findOrCreateScopeLogs within the ResourceLogs at index n: the first ScopeLogs
\* whose Scope() == scope, or a new ScopeLogs appended with a copy of the scope.
findOrCreateScopeLogs(logs, n, scope, content) ==
    IF SameScope(logs, n, scope) # {}
    THEN [logs |-> logs, at |-> Least(SameScope(logs, n, scope))]
    ELSE [logs |-> [logs EXCEPT ![n].ScopeLogs =
                        Append(@, [Scope |-> content, LogRecords |-> <<>>])],
          at |-> Len(logs[n].ScopeLogs) + 1]

\* Variant of the filter that lets through the names a listed name is part of
EventIncludedSubstring(nameSet, name) ==
    nameSet.isNil \/ \E listed \in nameSet.names : Contains(name, listed)

\* The filter on the event name: a nil eventNameSet lets every event through
EventIncluded(nameSet, name) == nameSet.isNil \/ name \in nameSet.names

\* The positions (i, j, k, l) of the events of a batch, in the order of the four
\* nested loops of extractLogsFromTraces
RECURSIVE EventsFrom(_, _, _, _, _)
EventsFrom(td, i, j, k, l) ==
    IF i > Len(td) THEN <<>>
    ELSE IF j > Len(td[i].ScopeSpans) THEN EventsFrom(td, i + 1, 1, 1, 1)
    ELSE IF k > Len(td[i].ScopeSpans[j].Spans) THEN EventsFrom(td, i, j + 1, 1, 1)
    ELSE IF l > Len(td[i].ScopeSpans[j].Spans[k].Events) THEN EventsFrom(td, i, j, k + 1, 1)
    ELSE <<[i |-> i, j |-> j, k |-> k, l |-> l]>> \o EventsFrom(td, i, j, k, l + 1)

\* Variant that leaves the new ResourceLogs with the copy of the resource that
\* findOrCreateResourceLogs has made
KeepResourceCopy(cfg, rl, attrs) == rl

\* Resource attributes are copied when the ResourceLogs is first created, if
\* configured, and cleared otherwise
CopyResourceAttributes(cfg, rl, attrs) ==
    IF rl.created
    THEN IF shouldCopyAttributes(cfg, "resource.attributes")
         THEN [rl EXCEPT !.logs[rl.at].Resource.Attributes = attrs]
         ELSE [rl EXCEPT !.logs[rl.at].Resource.Attributes = EmptyMap]
    ELSE rl

\* Append the log record to the ScopeLogs sl.at of the ResourceLogs n
AppendLogRecord(sl, n, logRecord) ==
    [sl.logs EXCEPT ![n].ScopeLogs[sl.at].LogRecords = Append(@, logRecord)]

\* With the ResourceLogs rl of the event at p found or created: its ScopeLogs
\* is found or created and the record appended
PlaceLogRecord(rl, td, p, logRecord) ==
    AppendLogRecord(findOrCreateScopeLogs(rl.logs, rl.at, ScopeAt(InTraces, p.i, p.j),
                                          td[p.i].ScopeSpans[p.j].Scope),
                    rl.at, logRecord)

\* Variant that creates the ResourceLogs of an event before the filter is applied
ProcessEventEager(cfg, nameSet, logs, td, p, order, now) ==
    IF ~EventIncluded(nameSet, td[p.i].ScopeSpans[p.j].Spans[p.k].Events[p.l].Name)
    THEN findOrCreateResourceLogs(logs, ResourceAt(InTraces, p.i), td[p.i].Resource).logs
    ELSE PlaceLogRecord(
             CopyResourceAttributes(cfg,
                 findOrCreateResourceLogs(logs, ResourceAt(InTraces, p.i), td[p.i].Resource),
                 td[p.i].Resource.Attributes),
             td, p,
             populateLogRecord(cfg, NewLogRecord,
                               td[p.i].ScopeSpans[p.j].Spans[p.k].Events[p.l],
                               td[p.i].ScopeSpans[p.j].Spans[p.k], order, now))

\* Body of the innermost loop for the event at position p
ProcessEvent(cfg, nameSet, logs, td, p, order, now) ==
    IF ~EventIncluded(nameSet, td[p.i].ScopeSpans[p.j].Spans[p.k].Events[p.l].Name)
    THEN logs
    ELSE PlaceLogRecord(
             CopyResourceAttributes(cfg,
                 findOrCreateResourceLogs(logs, ResourceAt(InTraces, p.i), td[p.i].Resource),
                 td[p.i].Resource.Attributes),
             td, p,
             populateLogRecord(cfg, NewLogRecord,
                               td[p.i].ScopeSpans[p.j].Spans[p.k].Events[p.l],
                               td[p.i].ScopeSpans[p.j].Spans[p.k], order, now))

\* The loops: totalEvents counts the events seen so far; orders[totalEvents] is
\* the map iteration order of the populateLogRecord call for that event.
RECURSIVE Walk(_, _, _, _, _, _, _, _)
Walk(cfg, nameSet, logs, td, todo, totalEvents, orders, now) ==
    IF todo = <<>>
    THEN logs
    ELSE Walk(cfg, nameSet,
              ProcessEvent(cfg, nameSet, logs, td, Head(todo), orders[totalEvents + 1], now),
              td, Tail(todo), totalEvents + 1, orders, now)

\* extractLogsFromTraces
extractLogsFromTraces(cfg, nameSet, td, orders, now) ==
    IF Len(td) = 0
    THEN NewLogs
    ELSE Walk(cfg, nameSet, NewLogs, td, EventsFrom(td, 1, 1, 1, 1), 0, orders, now)

\* Variant in which the attributes are written through resource, the wrapper of
\* the Resource of the input
ResourceOfInput(rl, p) == ResourceAt(InTraces, p.i)

\* The place the attributes are written to when a ResourceLogs is first
\* created: resourceLogs.Resource(), in the output batch
ResourceWritten(rl, p) == ResourceAt(InLogs, rl.at)

\* The batch of traces after the attributes of the Resource at the place ref
\* were set: a write through a wrapper into another batch leaves it alone
SetResourceAttributes(td, ref, attrs) ==
    IF ref.batch = InTraces
    THEN [td EXCEPT ![ref.path[1]].Resource.Attributes = attrs]
    ELSE td

\* The batch of traces after the copy or the clearing of the attributes of the
\* ResourceLogs rl
TracesAfterResource(cfg, rl, td, p) ==
    IF rl.created
    THEN SetResourceAttributes(td, ResourceWritten(rl, p),
                               IF shouldCopyAttributes(cfg, "resource.attributes")
                               THEN td[p.i].Resource.Attributes
                               ELSE EmptyMap)
    ELSE td

\* The batch of traces after the body of the innermost loop for the event at
\* position p; every other write of the body is to the log record and the
\* ScopeLogs that AppendEmpty has just created in the output batch
TracesAfterEvent(cfg, nameSet, logs, td, p) ==
    IF ~EventIncluded(nameSet, td[p.i].ScopeSpans[p.j].Spans[p.k].Events[p.l].Name)
    THEN td
    ELSE TracesAfterResource(cfg,
             findOrCreateResourceLogs(logs, ResourceAt(InTraces, p.i), td[p.i].Resource),
             td, p)

\* The batch of traces after the loops
RECURSIVE TracesAfterWalk(_, _, _, _, _, _, _, _)
TracesAfterWalk(cfg, nameSet, logs, td, todo, totalEvents, orders, now) ==
    IF todo = <<>>
    THEN td
    ELSE TracesAfterWalk(cfg, nameSet,
              ProcessEvent(cfg, nameSet, logs, td, Head(todo), orders[totalEvents + 1], now),
              TracesAfterEvent(cfg, nameSet, logs, td, Head(todo)),
              Tail(todo), totalEvents + 1, orders, now)

\* The batch of traces after extractLogsFromTraces
TracesAfter(cfg, nameSet, td, orders, now) ==
    IF Len(td) = 0
    THEN td
    ELSE TracesAfterWalk(cfg, nameSet, NewLogs, td, EventsFrom(td, 1, 1, 1, 1), 0, orders, now)

(***************************************************************************)
(* Connector                                                               *)
(***************************************************************************)
\* newConnector: the set of included event names, nil when none is configured
newConnector(cfg) ==
    IF Len(cfg.IncludeEventNames) > 0
    THEN [isNil |-> FALSE,
          names |-> {cfg.IncludeEventNames[i] : i \in DOMAIN cfg.IncludeEventNames}]
    ELSE [isNil |-> TRUE, names |-> {}]

\* Variant without the LogRecordCount guard: every batch is handed over
AlwaysConsume(logs) == TRUE

\* Variant that swallows the consumer's error
SwallowError(called, err) == Nil

\* ConsumeTraces hands the batch to the consumer only when it holds records
ShouldConsume(logs) == LogRecordCount(logs) > 0

\* What ConsumeTraces returns: the consumer's error if it was called and failed
ConsumeTracesReturn(called, err) == IF called /\ err # Nil THEN err ELSE Nil

\* All permutations of a finite set, as sequences
Perms(S) ==
    {f \in [1..Cardinality(S) -> S] : \A a, b \in 1..Cardinality(S) : f[a] = f[b] => a = b}

\* Number of events of a batch
NumEvents(td) == Len(EventsFrom(td, 1, 1, 1, 1))

\* One map iteration order for each populateLogRecord call of an invocation
Orders(cfg, td) == [1..NumEvents(td) -> Perms(DOMAIN cfg.SeverityByEventName)]

\* The caller starts a new batch (ptrace.NewTraces()) and resets the sink that
\* stands behind the connector (LogsSink.Reset()).
NewTraces ==
    /\ ret # NotCalled
    /\ traces' = <<>>
    /\ allLogs' = <<>>
    /\ consumerErrs' = <<>>
    /\ ret' = NotCalled
    /\ UNCHANGED <<config, eventNameSet, severity, mapped, calls>>

\* The caller appends a ResourceSpans to the batch it is building
\* (traces.ResourceSpans().AppendEmpty() and the setters that fill it).
AppendResourceSpans(rs, max) ==
    /\ ret = NotCalled
    /\ Len(traces) < max
    /\ traces' = Append(traces, rs)
    /\ UNCHANGED <<config, eventNameSet, allLogs, consumerErrs, ret, severity, mapped, calls>>

\* Connector.ConsumeTraces on the caller's batch; consumerErr is what the logs
\* consumer returns if it is called.
Deliver(logs, consumerErr) ==
    /\ allLogs' = IF ShouldConsume(logs) THEN Append(allLogs, logs) ELSE allLogs
    /\ consumerErrs' = IF ShouldConsume(logs)
                       THEN Append(consumerErrs, consumerErr)
                       ELSE consumerErrs
    /\ ret' = ConsumeTracesReturn(ShouldConsume(logs), consumerErr)

ConsumeTraces(orders, now, consumerErr) ==
    /\ ret = NotCalled
    /\ Deliver(extractLogsFromTraces(config, eventNameSet, traces, orders, now), consumerErr)
    /\ traces' = TracesAfter(config, eventNameSet, traces, orders, now)
    /\ UNCHANGED <<config, eventNameSet, severity, mapped, calls>>

(***************************************************************************)
(* Concurrent invocations                                                  *)
(*                                                                         *)
(* Several goroutines call ConsumeTraces on one Connector, each with a     *)
(* batch of its own.  The Connector's fields are common to them; logs and  *)
(* the loop variables are locals of each call.  A step is one iteration of *)
(* the innermost loop.                                                     *)
(***************************************************************************)
Callers == {"a", "b"}

\* A goroutine outside ConsumeTraces
Idle ==
    [pc |-> "idle", traces |-> <<>>, todo |-> <<>>, logs |-> NewLogs,
     totalEvents |-> 0, at |-> 0, ret |-> NotCalled]

NoCalls == [g \in Callers |-> Idle]

\* Variant in which logs is kept in the Connector, common to the goroutines
SharedLogs(cs, g) == cs["a"].logs

\* logs := plog.NewLogs() is a local variable of the call of goroutine g
LocalLogs(cs, g) == cs[g].logs

\* Goroutine g calls ConsumeTraces(td): logs := plog.NewLogs(), loops not begun
EnterConsumeTraces(g, td) ==
    /\ calls[g].pc = "idle"
    /\ calls' = [calls EXCEPT ![g] =
                    [pc |-> "loops", traces |-> td, todo |-> EventsFrom(td, 1, 1, 1, 1),
                     logs |-> NewLogs, totalEvents |-> 0, at |-> 0, ret |-> NotCalled]]
    /\ UNCHANGED <<config, eventNameSet, traces, allLogs, consumerErrs, ret, severity, mapped>>

\* One iteration of the innermost loop of extractLogsFromTraces in goroutine g
LoopStep(g, order, now) ==
    /\ calls[g].pc = "loops"
    /\ calls[g].todo # <<>>
    /\ calls' = [calls EXCEPT
                    ![g].logs = ProcessEvent(config, eventNameSet, LocalLogs(calls, g),
                                             calls[g].traces, Head(calls[g].todo), order, now),
                    ![g].todo = Tail(@),
                    ![g].totalEvents = @ + 1]
    /\ UNCHANGED <<config, eventNameSet, traces, allLogs, consumerErrs, ret, severity, mapped>>

\* The loops of goroutine g are over: the batch is handed to the logs consumer
\* if it holds records, and ConsumeTraces returns
ReturnFromConsumeTraces(g, consumerErr) ==
    /\ calls[g].pc = "loops"
    /\ calls[g].todo = <<>>
    /\ allLogs' = IF ShouldConsume(calls[g].logs) THEN Append(allLogs, calls[g].logs) ELSE allLogs
    /\ consumerErrs' = IF ShouldConsume(calls[g].logs)
                       THEN Append(consumerErrs, consumerErr)
                       ELSE consumerErrs
    /\ calls' = [calls EXCEPT
                    ![g].pc = "returned",
                    ![g].at = IF ShouldConsume(calls[g].logs) THEN Len(allLogs) + 1 ELSE 0,
                    ![g].ret = ConsumeTracesReturn(ShouldConsume(calls[g].logs), consumerErr)]
    /\ UNCHANGED <<config, eventNameSet, traces, ret, severity, mapped>>

\* All goroutines have returned: the sink is reset (LogsSink.Reset()) and the
\* goroutines are ready for other batches
ResetSink ==
    /\ \A g \in Callers : calls[g].pc = "returned"
    /\ calls' = NoCalls
    /\ allLogs' = <<>>
    /\ consumerErrs' = <<>>
    /\ UNCHANGED <<config, eventNameSet, traces, ret, severity, mapped>>

(***************************************************************************)
(* Config.Validate                                                         *)
(***************************************************************************)
t_unspecified == <<"u","n","s","p","e","c","i","f","i","e","d">>

validSources == {"event.attributes", "span.attributes", "resource.attributes"}

\* The table of Validate: the 24 level names, lower case, and "unspecified"
validSeverities ==
    {base \o suffix : base \in {t_trace, t_debug, t_info, t_warn, t_error, t_fatal},
                      suffix \in {<<>>, <<"2">>, <<"3">>, <<"4">>}}
    \cup {t_unspecified}

ErrInvalidSource   == "invalid log attributes source"
ErrInvalidSeverity == "invalid severity level for event"

\* Validate: the sources are checked first, then the severity values; Nil when
\* the configuration is valid
Validate(cfg) ==
    IF \E n \in DOMAIN cfg.LogAttributesFrom : cfg.LogAttributesFrom[n] \notin validSources
    THEN ErrInvalidSource
    ELSE IF \E eventName \in DOMAIN cfg.SeverityByEventName :
                cfg.SeverityByEventName[eventName] \notin validSeverities
    THEN ErrInvalidSeverity
    ELSE Nil

\* The collector validates the configuration it loaded
CallValidate ==
    /\ ret = NotCalled
    /\ ret' = Validate(config)
    /\ UNCHANGED <<config, eventNameSet, traces, allLogs, consumerErrs, severity, mapped, calls>>

\* A call of mapSeverity on the string `severity`
CallMapSeverity ==
    /\ mapped = <<>>
    /\ mapped' = <<mapSeverity(severity)>>
    /\ UNCHANGED <<config, eventNameSet, traces, allLogs, consumerErrs, ret, severity, calls>>

(***************************************************************************)
(* Inputs                                                                  *)
(***************************************************************************)
n_exception   == <<"e","x","c","e","p","t","i","o","n">>
n_custom      == <<"c","u","s","t","o","m">>
n_nonexistent == <<"n","o","n","e">>
n_except      == <<"e","x","c","e","p","t">>
v_NPE         == <<"N","P","E">>
v_service     == <<"s","v","c">>
v_span        == <<"s","p","a","n">>
v_GET         == <<"G","E","T">>
v_scope       == <<"s","c","o","p","e">>

NoAttributeMappings == [Body |-> "", SeverityNumber |-> "", SeverityText |-> "", EventName |-> ""]

\* config.Config with every option at its zero value
ZeroConfig ==
    [IncludeEventNames |-> <<>>, IncludeSpanContext |-> FALSE, LogAttributesFrom |-> <<>>,
     SeverityByEventName |-> EmptyMap, AddLevel |-> FALSE, SeverityAttribute |-> "",
     AttributeMappings |-> NoAttributeMappings]

\* The errors a logs consumer may return
ConsumerErrors == {Nil, "AnError", "OtherError"}

\* Values of time.Now()
Clock == {1000, 1001}

MkEvent(name, ts, attrs) == [Name |-> name, Timestamp |-> ts, Attributes |-> attrs]

MkSpan(name, id, attrs, events) ==
    [Name |-> name, Kind |-> "SpanKindServer", TraceID |-> 7, SpanID |-> id,
     TraceState |-> t_empty, Attributes |-> attrs, Events |-> events]

MkScopeSpans(name, spans) == [Scope |-> [Name |-> name, Version |-> <<"1">>], Spans |-> spans]

MkResourceSpans(attrs, scopeSpans) == [Resource |-> [Attributes |-> attrs], ScopeSpans |-> scopeSpans]

ExceptionEvent == MkEvent(n_exception, 10, "exception.type" :> StrValue(v_NPE))
CustomEvent    == MkEvent(n_custom, 20, "custom.attribute" :> StrValue(v_GET))

ServiceAttrs == "service.name" :> StrValue(v_service)
SpanAttrs    == "http.method" :> StrValue(v_GET)

\* The ResourceSpans the batches of the walk are built from
WalkResourceSpans ==
    { \* one scope, one span, two events (createTestTraces)
      MkResourceSpans(ServiceAttrs,
          <<MkScopeSpans(v_scope, <<MkSpan(v_span, 1, SpanAttrs, <<ExceptionEvent, CustomEvent>>)>>)>>),
      \* one scope, two spans
      MkResourceSpans(ServiceAttrs,
          <<MkScopeSpans(v_scope, <<MkSpan(v_span, 1, SpanAttrs, <<CustomEvent>>),
                                    MkSpan(v_span, 2, SpanAttrs, <<ExceptionEvent>>)>>)>>),
      \* two scopes, the second one with two events of the same name
      MkResourceSpans(ServiceAttrs,
          <<MkScopeSpans(v_scope, <<MkSpan(v_span, 1, SpanAttrs, <<ExceptionEvent>>)>>),
            MkScopeSpans(v_span, <<MkSpan(v_span, 2, SpanAttrs, <<CustomEvent, CustomEvent>>)>>)>>),
      \* a span without events
      MkResourceSpans(ServiceAttrs,
          <<MkScopeSpans(v_scope, <<MkSpan(v_span, 1, SpanAttrs, <<>>)>>)>>),
      \* a resource without scopes
      MkResourceSpans(EmptyMap, <<>>) }

MaxResourceSpans == 2

WalkConfigs ==
    {[ZeroConfig EXCEPT !.IncludeEventNames = names,
                        !.IncludeSpanContext = ctx,
                        !.LogAttributesFrom = from,
                        !.SeverityByEventName = n_exception :> t_error] :
        names \in {<<>>, <<n_exception>>, <<n_nonexistent>>, <<n_custom, n_exception>>,
                   \* a part of an event name, and an event name in another case
                   <<n_except, ToUpper(n_custom)>>},
        ctx \in BOOLEAN,
        from \in {<<"event.attributes">>, <<"event.attributes", "resource.attributes">>}}

(***************************************************************************)
(* Specifications                                                          *)
(*                                                                         *)
(* A connector is built from some configuration; its caller builds batches *)
(* out of a pool of ResourceSpans and hands each to ConsumeTraces.         *)
(***************************************************************************)
InitWith(configs) ==
    /\ config \in configs
    /\ eventNameSet = newConnector(config)
    /\ traces = <<>>
    /\ allLogs = <<>>
    /\ consumerErrs = <<>>
    /\ ret = NotCalled
    /\ severity = t_empty
    /\ mapped = <<>>
    /\ calls = NoCalls

NextWith(pool, max, clock, errors) ==
    \/ NewTraces
    \/ \E rs \in pool : AppendResourceSpans(rs, max)
    \/ \E now \in clock, err \in errors :
           \E orders \in Orders(config, traces) : ConsumeTraces(orders, now, err)

\* The walk: batches of several resources, scopes, spans and events
Init == InitWith(WalkConfigs)

Next == NextWith(WalkResourceSpans, MaxResourceSpans, Clock, ConsumerErrors)

Spec == Init /\ [][Next]_vars

(***************************************************************************)
(* Properties of the walk                                                  *)
(***************************************************************************)
\* The events of a batch that pass the event-name filter of the configuration:
\* include_event_names is empty or lists the event's name
Qualifying(cfg, td) ==
    {p \in {EventsFrom(td, 1, 1, 1, 1)[n] : n \in 1..NumEvents(td)} :
        \/ cfg.IncludeEventNames = <<>>
        \/ \E n \in DOMAIN cfg.IncludeEventNames :
               cfg.IncludeEventNames[n] = td[p.i].ScopeSpans[p.j].Spans[p.k].Events[p.l].Name}

\* The invocation on `traces` has returned
Returned == ret # NotCalled

\* C1: an invocation calls the downstream ConsumeLogs exactly once if at least
\* one event of its input passes the event-name filter and not at all otherwise,
\* and no batch the consumer receives holds zero log records.
C1_NoEmptyBatch ==
    /\ ~Returned => allLogs = <<>>
    /\ Returned => Len(allLogs) = (IF Qualifying(config, traces) # {} THEN 1 ELSE 0)
    /\ \A b \in DOMAIN allLogs : LogRecordCount(allLogs[b]) > 0

\* An input with events none of which is on the allow-list: no call was made
C1_Witness ==
    /\ Returned
    /\ NumEvents(traces) > 0
    /\ Qualifying(config, traces) = {}
    /\ allLogs = <<>>

\* The number of ScopeLogs of a batch
ScopeLogsCount(logs) == SumLen(logs, "ScopeLogs")

\* C2: in the output batch a source Resource appears as at most one Resource
\* group and inside it a source Scope as at most one Scope group: the batch has
\* no more Resource groups than the input has Resources with qualifying events,
\* and no more Scope groups than the input has Scopes with qualifying events.
C2_OneGroupPerSource ==
    Returned =>
        \A b \in DOMAIN allLogs :
            /\ Len(allLogs[b]) <= Cardinality({p.i : p \in Qualifying(config, traces)})
            /\ ScopeLogsCount(allLogs[b])
                   <= Cardinality({<<p.i, p.j>> : p \in Qualifying(config, traces)})

\* C10: ConsumeTraces returns an error if and only if the downstream ConsumeLogs
\* was called and returned an error; the error returned is that same error, and
\* on such a failure ConsumeLogs has been called exactly once.
C10_ErrorPropagated ==
    Returned =>
        /\ ret # Nil <=> (\E n \in DOMAIN consumerErrs : consumerErrs[n] # Nil)
        /\ ret # Nil => Len(allLogs) = 1 /\ Len(consumerErrs) = 1 /\ ret = consumerErrs[1]

\* The consumer failed and the caller got its error
C10_Witness ==
    /\ Returned
    /\ Len(consumerErrs) = 1
    /\ consumerErrs[1] = "OtherError"
    /\ ret = "OtherError"

\* C11: an event is converted if and only if include_event_names is empty or
\* contains a string equal to the full event name; the batch handed to the
\* consumer holds exactly one log record per such event of the whole input.
C11_OneRecordPerListedEvent ==
    Returned =>
        /\ Qualifying(config, traces) = {} => allLogs = <<>>
        /\ \A b \in DOMAIN allLogs :
               LogRecordCount(allLogs[b]) = Cardinality(Qualifying(config, traces))

\* The list names a part of "exception" and "CUSTOM": no event of a batch with
\* both events was converted
C11_Witness ==
    /\ Returned
    /\ config.IncludeEventNames = <<n_except, ToUpper(n_custom)>>
    /\ \E p \in {EventsFrom(traces, 1, 1, 1, 1)[n] : n \in 1..NumEvents(traces)} :
           traces[p.i].ScopeSpans[p.j].Spans[p.k].Events[p.l].Name = n_exception
    /\ \E p \in {EventsFrom(traces, 1, 1, 1, 1)[n] : n \in 1..NumEvents(traces)} :
           traces[p.i].ScopeSpans[p.j].Spans[p.k].Events[p.l].Name = n_custom
    /\ allLogs = <<>>

(***************************************************************************)
(* Severity strings: the parser and the validation of the configuration    *)
(*                                                                         *)
(* A severity string is written as the value of severity_by_event_name for *)
(* the event name "retry"; the configuration is validated, and the string  *)
(* is parsed.                                                              *)
(***************************************************************************)
n_retry == <<"r","e","t","r","y">>

Capitalise(s) == IF s = <<>> THEN s ELSE <<ToUpperChar(s[1])>> \o Tail(s)

Spellings(s) == {s, ToUpper(s), Capitalise(s)}

\* Level names and aliases with and without a digit, in three spellings, and
\* strings that are no level
SeverityStrings ==
    UNION {Spellings(base \o suffix) :
              base \in {t_trace, t_debug, t_info, t_warn, t_error, t_fatal, t_warning, t_err},
              suffix \in {<<>>, <<"1">>, <<"2">>, <<"3">>, <<"4">>}}
    \cup {t_empty, t_unspecified, t_trace \o <<"2","1">>, t_warn \o <<"4","1">>,
          t_trace \o <<"5">>, t_warning \o <<"5">>, <<"b","o","g","u","s">>, <<"1">>}

SourceLists == {<<"event.attributes">>, <<"event.attributes", "attributes">>}

InitStrings ==
    /\ severity \in SeverityStrings
    /\ \E from \in SourceLists :
           config = [ZeroConfig EXCEPT !.LogAttributesFrom = from,
                                       !.SeverityByEventName = n_retry :> severity]
    /\ eventNameSet = newConnector(config)
    /\ traces = <<>>
    /\ allLogs = <<>>
    /\ consumerErrs = <<>>
    /\ ret = NotCalled
    /\ mapped = <<>>
    /\ calls = NoCalls

NextStrings == CallValidate \/ CallMapSeverity

SpecStrings == InitStrings /\ [][NextStrings]_vars

\* Every source of log_attributes_from is one of the three known sources
SourcesValid(cfg) ==
    \A n \in DOMAIN cfg.LogAttributesFrom : cfg.LogAttributesFrom[n] \in validSources

\* C8: Config.Validate agrees with the parser on severity_by_event_name: it
\* reports a configuration error if and only if some value of the map is
\* rejected by mapSeverity (stated for configurations whose sources are valid).
C8_ValidateAgreesWithParser ==
    (Returned /\ SourcesValid(config)) =>
        (ret # Nil <=> \E eventName \in DOMAIN config.SeverityByEventName :
                           mapSeverity(config.SeverityByEventName[eventName]) = NoMatch)

\* Every value of severity_by_event_name is a valid severity: the parser accepts it
SeveritiesValid(cfg) ==
    \A eventName \in DOMAIN cfg.SeverityByEventName :
        mapSeverity(cfg.SeverityByEventName[eventName]) # NoMatch

\* C27: Config.Validate returns an error whenever an entry of
\* log_attributes_from is none of the three sources, the error for the source
\* also when a severity value is invalid as well; it returns no error when
\* every entry is one of the three and every severity value is valid; and it
\* leaves the configuration as it was.
C27_ValidateSources ==
    Returned =>
        /\ ~SourcesValid(config) => ret = ErrInvalidSource
        /\ (SourcesValid(config) /\ SeveritiesValid(config)) => ret = Nil
        /\ config.SeverityByEventName = (n_retry :> severity)
        /\ \E from \in SourceLists : config.LogAttributesFrom = from

LevelNames == <<t_trace, t_debug, t_info, t_warn, t_error, t_fatal>>

Digits == <<"1", "2", "3", "4">>

\* The spellings of the level LevelNames[level]: its name and its aliases
NamesOf(level) ==
    {LevelNames[level]}
    \cup (IF LevelNames[level] = t_warn THEN {t_warning} ELSE {})
    \cup (IF LevelNames[level] = t_error THEN {t_err} ELSE {})

\* The severity of sub-level d of a level: number 4 * (level - 1) + d, and the
\* level name followed by the digit d when d > 1
SubLevel(level, d) ==
    [number |-> 4 * (level - 1) + d,
     text |-> LevelNames[level] \o (IF d = 1 THEN <<>> ELSE <<Digits[d]>>)]

\* The lower-case strings that stand for sub-level d of a level: a spelling of
\* the level, followed by the digit d (which may be left out when d = 1)
FormsOf(level, d) ==
    {name \o suffix : name \in NamesOf(level),
                      suffix \in {<<Digits[d]>>} \cup (IF d = 1 THEN {<<>>} ELSE {})}

\* The numbered forms of "err" above 1
ErrNumbered == {t_err \o <<Digits[d]>> : d \in 2..4}

\* The parser was called on a string that stands for sub-level d of a level
ParsedForm(level, d) == mapped # <<>> /\ ToLower(severity) \in FormsOf(level, d)

\* C9 as stated: mapSeverity maps, case-insensitively, every base level, every
\* numbered sub-level and the aliases "warning" and "err" with their numbered
\* forms ("warning2".."warning4", "err2".."err4") to the number and canonical
\* text of the level.
C9_AllForms ==
    \A level \in DOMAIN LevelNames, d \in DOMAIN Digits :
        ParsedForm(level, d) => mapped = <<SubLevel(level, d)>>

\* C9, amended: the same for every form except "err2", "err3" and "err4", which
\* mapSeverity rejects with the no-match result.
C9_FormsButErrNumbered ==
    /\ \A level \in DOMAIN LevelNames, d \in DOMAIN Digits :
           (ParsedForm(level, d) /\ ToLower(severity) \notin ErrNumbered)
               => mapped = <<SubLevel(level, d)>>
    /\ (mapped # <<>> /\ ToLower(severity) \in ErrNumbered) => mapped = <<NoMatch>>

\* "Warning2" was parsed to (Warn2, "warn2")
C9_Witness ==
    /\ severity = Capitalise(t_warning \o <<"2">>)
    /\ mapped = <<[number |-> SeverityNumberWarn2, text |-> t_warn \o <<"2">>]>>

\* C17: for every string that mapSeverity accepts with the result (n, t),
\* severityNumberToText(n) = t and mapSeverity(t) = (n, t).
C17_RoundTrip ==
    (mapped # <<>> /\ mapped # <<NoMatch>>) =>
        /\ severityNumberToText(mapped[1].number) = mapped[1].text
        /\ mapSeverity(mapped[1].text) = mapped[1]

\* The alias "ERR" was accepted as (Error, "error")
C17_Witness ==
    /\ severity = ToUpper(t_err)
    /\ mapped = <<[number |-> SeverityNumberError, text |-> t_error]>>

\* The lower-case strings that stand for a level: a base level or an alias,
\* alone or followed by one digit 1 to 4
AllForms == UNION {FormsOf(level, d) : level \in DOMAIN LevelNames, d \in DOMAIN Digits}

\* C23: mapSeverity returns the no-match result for every string that is not,
\* case-insensitively, a base level or an alias, alone or followed by one digit
\* 1 to 4: the empty string, "unspecified", "trace21" and "warn41" are rejected.
C23_NoMatchOutsideForms ==
    (mapped # <<>> /\ ToLower(severity) \notin AllForms) => mapped = <<NoMatch>>

(***************************************************************************)
(* Severity resolution: batches of one event                               *)
(***************************************************************************)
n_connError == <<"C","o","n","n"," ","E","r","r","o","r">>
k_error     == <<"e","r","r","o","r">>
k_connError == <<"c","o","n","n"," ","e","r","r","o","r">>
k_ERROR     == <<"E","R","R","O","R">>
k_conn      == <<"c","o","n","n">>
k_rror      == <<"r","r","o","r">>
v_bogus     == <<"b","o","g","u","s">>

\* severity_by_event_name maps
SeverityMaps ==
    { EmptyMap,
      n_exception :> t_error,
      \* a shorter and a longer matching key
      (k_error :> t_error) @@ (k_connError :> t_fatal),
      \* an upper-case key and value; a longer key whose severity is invalid
      (k_ERROR :> Capitalise(t_debug)) @@ (k_connError :> v_bogus),
      \* the empty key
      t_empty :> t_error,
      (t_empty :> t_fatal) @@ (n_exception :> t_warning),
      \* two matching keys of equal length
      (k_conn :> t_warn) @@ (k_rror :> t_fatal) }

SeverityConfigs ==
    {[ZeroConfig EXCEPT !.SeverityByEventName = byName,
                        !.SeverityAttribute = attr,
                        !.AttributeMappings.SeverityNumber = num,
                        !.AttributeMappings.SeverityText = text] :
        byName \in SeverityMaps,
        attr \in {"", "log.severity"},
        num \in {"", "sev.num"},
        text \in {"", "sev.text"}}

\* Event attributes: each of the three attributes is absent, present with a
\* value that counts, or present with one that does not
SeverityEventAttributes ==
    {PutAll(PutAll(num, text), attr) :
        num \in {EmptyMap,
                 "sev.num" :> IntValue(0, SeverityNumberError),
                 "sev.num" :> IntValue(0, 99),
                 \* 2^32 + 17
                 "sev.num" :> IntValue(1, SeverityNumberError),
                 "sev.num" :> StrValue(<<"1","7">>)},
        text \in {EmptyMap,
                  "sev.text" :> StrValue(ToUpper(t_fatal)),
                  "sev.text" :> StrValue(v_bogus)},
        attr \in {EmptyMap,
                  "log.severity" :> StrValue(Capitalise(t_warning \o <<"2">>)),
                  "log.severity" :> StrValue(v_bogus),
                  "log.severity" :> BoolValue(TRUE)}}

SeverityResourceSpans ==
    {MkResourceSpans(ServiceAttrs,
         <<MkScopeSpans(v_scope, <<MkSpan(v_span, 1, SpanAttrs, <<MkEvent(name, 10, attrs)>>)>>)>>) :
        name \in {n_exception, n_connError},
        attrs \in SeverityEventAttributes}

InitSeverity == InitWith(SeverityConfigs)

NextSeverity == NextWith(SeverityResourceSpans, 1, {1000}, {Nil})

SpecSeverity == InitSeverity /\ [][NextSeverity]_vars

\* A batch of one event was converted: its event, its span and its record
Converted ==
    /\ Returned
    /\ Len(allLogs) = 1
    /\ NumEvents(traces) = 1
    /\ Len(traces) = 1

TheSpan == traces[1].ScopeSpans[1].Spans[1]

TheEvent == TheSpan.Events[1]

TheRecord == allLogs[1][1].ScopeLogs[1].LogRecords[1]

SeverityOf(logRecord) == [number |-> logRecord.SeverityNumber, text |-> logRecord.SeverityText]

\* The attribute-mapping stage yields a result: a mapped severity attribute is
\* on the event with the right type
MappingYields(cfg, event) ==
    \/ /\ cfg.AttributeMappings.SeverityNumber # ""
       /\ cfg.AttributeMappings.SeverityNumber \in DOMAIN event.Attributes
       /\ event.Attributes[cfg.AttributeMappings.SeverityNumber].type = ValueTypeInt
    \/ /\ cfg.AttributeMappings.SeverityText # ""
       /\ cfg.AttributeMappings.SeverityText \in DOMAIN event.Attributes
       /\ event.Attributes[cfg.AttributeMappings.SeverityText].type = ValueTypeStr

\* severity_attribute names a string attribute of the event that the parser accepts
AttributeParses(cfg, event) ==
    /\ cfg.SeverityAttribute # ""
    /\ cfg.SeverityAttribute \in DOMAIN event.Attributes
    /\ event.Attributes[cfg.SeverityAttribute].type = ValueTypeStr
    /\ mapSeverity(event.Attributes[cfg.SeverityAttribute].str) # NoMatch

\* The keys of severity_by_event_name that are case-insensitive substrings of
\* the event name
Matches(cfg, event) ==
    {key \in DOMAIN cfg.SeverityByEventName : Contains(ToLower(event.Name), ToLower(key))}

\* Those whose severity string parses
ValidMatches(cfg, event) ==
    {key \in Matches(cfg, event) : mapSeverity(cfg.SeverityByEventName[key]) # NoMatch}

InfoSeverity == [number |-> SeverityNumberInfo, text |-> t_info]

\* The severity a configuration gives an event, for some iteration order of the map
Resolved(cfg, event) ==
    {[number |-> ResolveSeverity(cfg, event, order).severityNumber,
      text |-> ResolveSeverity(cfg, event, order).severityText] :
        order \in Perms(DOMAIN cfg.SeverityByEventName)}

\* C3: whenever the attribute-mapping stage yields a result, the severity of the
\* record is that result whatever severity_attribute and severity_by_event_name
\* would give: it is the severity the same configuration gives with the two
\* lower stages switched off.
C3_MappingFirst ==
    (Converted /\ MappingYields(config, TheEvent)) =>
        SeverityOf(TheRecord) \in
            Resolved([config EXCEPT !.SeverityAttribute = "", !.SeverityByEventName = EmptyMap],
                     TheEvent)

\* The mapping stage gave the severity although severity_attribute parses and a
\* valid key matches, both with another severity
C3_Witness ==
    /\ Converted
    /\ MappingYields(config, TheEvent)
    /\ AttributeParses(config, TheEvent)
    /\ mapSeverity(TheEvent.Attributes[config.SeverityAttribute].str).number
           # TheRecord.SeverityNumber
    /\ \E key \in ValidMatches(config, TheEvent) :
           mapSeverity(config.SeverityByEventName[key]).number # TheRecord.SeverityNumber

\* C4: when the attribute-mapping stage yields nothing and severity_attribute
\* names a string attribute that the parser accepts, the severity of the record
\* is the parsed pair regardless of severity_by_event_name; otherwise resolution
\* falls through to the event-name stage (the record has the severity the
\* configuration gives without severity_attribute), and to (Info, "info") when
\* no key matches.
C4_AttributeSecond ==
    (Converted /\ ~MappingYields(config, TheEvent)) =>
        IF AttributeParses(config, TheEvent)
        THEN SeverityOf(TheRecord) = mapSeverity(TheEvent.Attributes[config.SeverityAttribute].str)
        ELSE /\ SeverityOf(TheRecord) \in
                    Resolved([config EXCEPT !.SeverityAttribute = "",
                                            !.AttributeMappings = NoAttributeMappings],
                             TheEvent)
             /\ Matches(config, TheEvent) = {} => SeverityOf(TheRecord) = InfoSeverity

\* severity_attribute gave the severity although a valid key of another
\* severity matches the event name
C4_Witness ==
    /\ Converted
    /\ ~MappingYields(config, TheEvent)
    /\ AttributeParses(config, TheEvent)
    /\ SeverityOf(TheRecord) = [number |-> SeverityNumberWarn2, text |-> t_warn \o <<"2">>]
    /\ \E key \in ValidMatches(config, TheEvent) :
           mapSeverity(config.SeverityByEventName[key]).number # TheRecord.SeverityNumber

LongestKey(keys) == CHOOSE key \in keys : \A other \in keys : Len(other) <= Len(key)

\* C5: in the event-name stage, among the keys that are case-insensitive
\* substrings of the event name and whose severity string parses, the longest
\* determines the severity of the record; when there is none the severity is
\* (Info, "info").  Stated for maps without two matching valid keys of equal
\* length.
C5_LongestValidKey ==
    (/\ Converted
     /\ ~MappingYields(config, TheEvent)
     /\ ~AttributeParses(config, TheEvent)
     /\ \A a, b \in ValidMatches(config, TheEvent) : Len(a) = Len(b) => a = b) =>
        SeverityOf(TheRecord) =
            IF ValidMatches(config, TheEvent) # {}
            THEN mapSeverity(config.SeverityByEventName[LongestKey(ValidMatches(config, TheEvent))])
            ELSE InfoSeverity

\* C29: an entry of severity_by_event_name whose key is the empty string and
\* whose severity parses matches every event name, and determines the severity
\* of every event for which no longer valid key matches and no earlier stage
\* has produced a result.
C29_EmptyKey ==
    (/\ Converted
     /\ ~MappingYields(config, TheEvent)
     /\ ~AttributeParses(config, TheEvent)
     /\ t_empty \in ValidMatches(config, TheEvent)
     /\ ValidMatches(config, TheEvent) = {t_empty}) =>
        SeverityOf(TheRecord) = mapSeverity(config.SeverityByEventName[t_empty])

\* C22: the severity of a record is a function of its event and the
\* configuration: every iteration order of severity_by_event_name gives the
\* same (number, text), also when two matching valid keys have the same length
\* and different severities.
C22_OrderIndependent ==
    Converted => Resolved(config, TheEvent) = {SeverityOf(TheRecord)}

\* The severity is that of one of the 24 levels: a canonical lower-case level
\* name, with the number of that level
Canonical(sev) ==
    \E level \in DOMAIN LevelNames, d \in DOMAIN Digits : sev = SubLevel(level, d)

\* C18 as stated: for every emitted record, the severity text is one of the 24
\* canonical lower-case level names and is the canonical name of the severity
\* number of the record.
C18_CanonicalSeverity == Converted => Canonical(SeverityOf(TheRecord))

\* The event carries the mapped severity number attribute, as an integer
NumberMapped(cfg, event) ==
    /\ cfg.AttributeMappings.SeverityNumber # ""
    /\ cfg.AttributeMappings.SeverityNumber \in DOMAIN event.Attributes
    /\ event.Attributes[cfg.AttributeMappings.SeverityNumber].type = ValueTypeInt

\* The event carries the mapped severity text attribute, as a string
TextMapped(cfg, event) ==
    /\ cfg.AttributeMappings.SeverityText # ""
    /\ cfg.AttributeMappings.SeverityText \in DOMAIN event.Attributes
    /\ event.Attributes[cfg.AttributeMappings.SeverityText].type = ValueTypeStr

\* C18, amended: the severity of a record is canonical except when the
\* attribute-mapping stage hands over a value as it is: a mapped severity text
\* that comes with a mapped number, or that the parser rejects, is the severity
\* text of the record as written on the event; a mapped number that is none of
\* the 24 level numbers is the severity number of the record, with the text
\* "info".
C18_CanonicalUnlessMapped ==
    Converted =>
        IF /\ TextMapped(config, TheEvent)
           /\ \/ NumberMapped(config, TheEvent)
              \/ mapSeverity(TheEvent.Attributes[config.AttributeMappings.SeverityText].str) = NoMatch
        THEN TheRecord.SeverityText =
                 TheEvent.Attributes[config.AttributeMappings.SeverityText].str
        ELSE IF /\ NumberMapped(config, TheEvent)
                /\ TheEvent.Attributes[config.AttributeMappings.SeverityNumber].lo \notin 1..24
        THEN /\ TheRecord.SeverityText = t_info
             /\ TheRecord.SeverityNumber =
                    TheEvent.Attributes[config.AttributeMappings.SeverityNumber].lo
        ELSE Canonical(SeverityOf(TheRecord))

\* The mapped severity text "FATAL", without a mapped number, became the
\* canonical (Fatal, "fatal")
C18_Witness ==
    /\ Converted
    /\ TextMapped(config, TheEvent)
    /\ ~NumberMapped(config, TheEvent)
    /\ TheEvent.Attributes[config.AttributeMappings.SeverityText].str = ToUpper(t_fatal)
    /\ SeverityOf(TheRecord) = [number |-> SeverityNumberFatal, text |-> t_fatal]

\* The int64 an Int value holds, and the int64 equal to a severity number, as
\* pairs of 32-bit halves
Int64Of(v) == <<v.hi, v.lo>>

Int64OfNumber(n) == <<0, n>>

\* The text of the int64 n in the table of the 24 levels, "info" for any other
TableText(n) ==
    IF n[1] = 0 /\ n[2] \in 1..24
    THEN SubLevel(((n[2] - 1) \div 4) + 1, ((n[2] - 1) % 4) + 1).text
    ELSE t_info

\* The mapped severity number attribute is on the event with another type
NumberOfOtherType(cfg, event) ==
    /\ cfg.AttributeMappings.SeverityNumber # ""
    /\ cfg.AttributeMappings.SeverityNumber \in DOMAIN event.Attributes
    /\ event.Attributes[cfg.AttributeMappings.SeverityNumber].type # ValueTypeInt

\* C24: a mapped severity number attribute with the integer value n gives the
\* record the severity number n and, unless a mapped severity text attribute is
\* present, the table text of n ("info" when n is none of the 24 numbers); an
\* attribute of another type is ignored, the severity being the one the
\* configuration gives without the number mapping.
C24_MappedNumber ==
    Converted =>
        /\ NumberMapped(config, TheEvent) =>
               /\ Int64OfNumber(TheRecord.SeverityNumber) =
                      Int64Of(TheEvent.Attributes[config.AttributeMappings.SeverityNumber])
               /\ ~TextMapped(config, TheEvent) =>
                      TheRecord.SeverityText =
                          TableText(Int64Of(TheEvent.Attributes[config.AttributeMappings.SeverityNumber]))
        /\ NumberOfOtherType(config, TheEvent) =>
               SeverityOf(TheRecord) \in
                   Resolved([config EXCEPT !.AttributeMappings.SeverityNumber = ""], TheEvent)

\* C25: a mapped severity text attribute with a string value, when no severity
\* number was mapped, gives the record the parsed canonical (number, text) if
\* the parser accepts the string, and else the raw string as text with the
\* default number Info, severity_attribute and severity_by_event_name not being
\* consulted; when a number was mapped as well, the text is the raw string and
\* the number the mapped one.
C25_MappedText ==
    (Converted /\ TextMapped(config, TheEvent)) =>
        IF NumberMapped(config, TheEvent)
        THEN /\ TheRecord.SeverityText =
                    TheEvent.Attributes[config.AttributeMappings.SeverityText].str
             /\ TheRecord.SeverityNumber =
                    MappedSeverityNumber(config, TheEvent, DefaultSeverity).severityNumber
        ELSE IF mapSeverity(TheEvent.Attributes[config.AttributeMappings.SeverityText].str) # NoMatch
        THEN /\ SeverityOf(TheRecord) =
                    mapSeverity(TheEvent.Attributes[config.AttributeMappings.SeverityText].str)
             /\ Canonical(SeverityOf(TheRecord))
        ELSE SeverityOf(TheRecord) =
                 [number |-> SeverityNumberInfo,
                  text |-> TheEvent.Attributes[config.AttributeMappings.SeverityText].str]

\* The mapped text "bogus" is on a record with the number Info, although the
\* severity attribute of the event parses and a key of severity_by_event_name
\* matches its name
C25_Witness ==
    /\ Converted
    /\ TextMapped(config, TheEvent)
    /\ ~NumberMapped(config, TheEvent)
    /\ AttributeParses(config, TheEvent)
    /\ ValidMatches(config, TheEvent) # {}
    /\ SeverityOf(TheRecord) = [number |-> SeverityNumberInfo, text |-> v_bogus]

\* C30: the severity number adopted from a mapped integer attribute is the
\* attribute's 64-bit value, unaltered by the conversion to the 32-bit ordinal,
\* and no record has a severity number outside 0..24.
C30_NoWrapInRange ==
    Converted =>
        /\ TheRecord.SeverityNumber \in 0..24
        /\ NumberMapped(config, TheEvent) =>
               Int64OfNumber(TheRecord.SeverityNumber) =
                   Int64Of(TheEvent.Attributes[config.AttributeMappings.SeverityNumber])

(***************************************************************************)
(* Attributes of the record: batches of one event                          *)
(***************************************************************************)
v_critical == <<"c","r","i","t","i","c","a","l">>
v_event    == <<"e","v","e","n","t">>
v_notice   == <<"n","o","t","i","c","e">>

\* Event and span attributes: with and without "level", with and without the
\* key "peer" that both carry
EventAttributes ==
    {PutAll(level, peer) :
        level \in {EmptyMap, k_level :> StrValue(v_critical)},
        peer \in {EmptyMap, "peer" :> StrValue(v_event)}}

SpanAttributes ==
    {PutAll(level, peer) :
        level \in {EmptyMap, k_level :> StrValue(v_notice)},
        peer \in {EmptyMap, "peer" :> StrValue(v_span)}}

AttributeResourceSpans ==
    {MkResourceSpans(ServiceAttrs,
         <<MkScopeSpans(v_scope, <<MkSpan(v_span, 1, span, <<MkEvent(n_custom, 10, event)>>)>>)>>) :
        event \in EventAttributes,
        span \in SpanAttributes}

AttributeConfigs ==
    {[ZeroConfig EXCEPT !.AddLevel = level,
                        !.LogAttributesFrom = from,
                        !.IncludeSpanContext = ctx,
                        !.AttributeMappings.EventName = name] :
        level \in BOOLEAN,
        from \in {<<>>, <<"event.attributes">>, <<"span.attributes">>, <<"resource.attributes">>,
                  <<"event.attributes", "span.attributes">>,
                  <<"span.attributes", "event.attributes">>},
        ctx \in BOOLEAN,
        name \in {"", "event.name", k_level}}

InitAttributes == InitWith(AttributeConfigs)

NextAttributes == NextWith(AttributeResourceSpans, 1, {1000}, {Nil})

SpecAttributes == InitAttributes /\ [][NextAttributes]_vars

\* A source is listed in log_attributes_from
Listed(cfg, source) ==
    \E n \in DOMAIN cfg.LogAttributesFrom : cfg.LogAttributesFrom[n] = source

\* The record has the attribute key with the value of the same key in attrs
SameValue(logRecord, attrs, key) ==
    /\ key \in DOMAIN logRecord.Attributes
    /\ logRecord.Attributes[key] = attrs[key]

Collisions(cfg, event, span) ==
    (DOMAIN event.Attributes \cap DOMAIN span.Attributes)
        \ {k_level, cfg.AttributeMappings.EventName, k_traceState, k_spanName, k_spanKind}

v_message    == <<"m","s","g">>
v_traceState == <<"k","=","v">>

MkSpanOf(name, kind, traceState, attrs, events) ==
    [Name |-> name, Kind |-> kind, TraceID |-> 7, SpanID |-> 1,
     TraceState |-> traceState, Attributes |-> attrs, Events |-> events]

\* Event attributes: "message" absent, a string or an integer; with and without
\* the key "peer"
FieldEventAttributes ==
    {PutAll(message, peer) :
        message \in {EmptyMap,
                     "message" :> StrValue(v_message),
                     "message" :> IntValue(0, 5)},
        peer \in {EmptyMap, "peer" :> StrValue(v_event)}}

\* Spans: with and without trace state, of two kinds, with attributes under
\* keys that the configurations below name
FieldSpans(events) ==
    {MkSpanOf(v_span, kind, traceState, attrs, events) :
        kind \in {"SpanKindServer", "SpanKindUnspecified"},
        traceState \in {t_empty, v_traceState},
        attrs \in {EmptyMap, "peer" :> StrValue(v_span), k_traceState :> StrValue(v_span)}}

FieldResourceSpans ==
    UNION {{MkResourceSpans(ServiceAttrs, <<MkScopeSpans(v_scope, <<span>>)>>) :
               span \in FieldSpans(<<MkEvent(n_custom, 10, event)>>)} :
           event \in FieldEventAttributes}

FieldConfigs ==
    {[ZeroConfig EXCEPT !.LogAttributesFrom = from,
                        !.IncludeSpanContext = ctx,
                        !.AttributeMappings.Body = body,
                        !.AttributeMappings.EventName = name] :
        from \in {<<>>, <<"event.attributes">>, <<"event.attributes", "span.attributes">>},
        ctx \in BOOLEAN,
        body \in {"", "message"},
        name \in {"", "event.name", "peer", k_spanName}}

InitFields == InitWith(FieldConfigs)

NextFields == NextWith(FieldResourceSpans, 1, {1000}, {Nil})

SpecFields == InitFields /\ [][NextFields]_vars

\* C12: the body of the record is the string value of the event attribute
\* named by attribute_mappings.body when the option is non-empty and the event
\* has that attribute with a string value; in every other case it is the event
\* name.
C12_Body ==
    Converted =>
        TheRecord.Body =
            IF /\ config.AttributeMappings.Body # ""
               /\ config.AttributeMappings.Body \in DOMAIN TheEvent.Attributes
               /\ TheEvent.Attributes[config.AttributeMappings.Body].type = ValueTypeStr
            THEN [type |-> ValueTypeStr,
                  str |-> TheEvent.Attributes[config.AttributeMappings.Body].str]
            ELSE [type |-> ValueTypeStr, str |-> TheEvent.Name]

\* The body is the mapped attribute "msg", not the event name
C12_Witness ==
    /\ Converted
    /\ config.AttributeMappings.Body = "message"
    /\ TheRecord.Body = StrValue(v_message)
    /\ TheEvent.Name = n_custom

\* Another step of populateLogRecord gives the record the attribute key: the
\* copy of the event or span attributes, or the event name attribute
Provided(cfg, event, span, key) ==
    \/ Listed(cfg, "event.attributes") /\ key \in DOMAIN event.Attributes
    \/ Listed(cfg, "span.attributes") /\ key \in DOMAIN span.Attributes
    \/ cfg.AttributeMappings.EventName = key

\* The record has the attribute key with the string value str
HasStr(logRecord, key, str) ==
    /\ key \in DOMAIN logRecord.Attributes
    /\ logRecord.Attributes[key] = [type |-> ValueTypeStr, str |-> str]

\* C13: with include_span_context enabled, the trace id and span id of the
\* record are those of the span that owns the event, "span.name" and "span.kind"
\* are the span's name and kind string, and "trace.state" is written if and only
\* if the span's trace state is non-empty; with it disabled, trace id and span id
\* stay empty and none of the three attributes is written (the record has such
\* an attribute only when another step provides it).
C13_SpanContext ==
    Converted =>
        IF config.IncludeSpanContext
        THEN /\ TheRecord.TraceID = TheSpan.TraceID
             /\ TheRecord.SpanID = TheSpan.SpanID
             /\ HasStr(TheRecord, k_spanName, TheSpan.Name)
             /\ HasStr(TheRecord, k_spanKind, SpanKindString(TheSpan.Kind))
             /\ TheSpan.TraceState # t_empty
                    => HasStr(TheRecord, k_traceState, TheSpan.TraceState)
             /\ (TheSpan.TraceState = t_empty /\ k_traceState \in DOMAIN TheRecord.Attributes)
                    => Provided(config, TheEvent, TheSpan, k_traceState)
        ELSE /\ TheRecord.TraceID = EmptyTraceID
             /\ TheRecord.SpanID = EmptySpanID
             /\ \A key \in {k_traceState, k_spanName, k_spanKind} :
                    key \in DOMAIN TheRecord.Attributes
                        => Provided(config, TheEvent, TheSpan, key)

\* The context of a span with a trace state is on the record, over the span
\* attribute "trace.state" that was copied before
C13_Witness ==
    /\ Converted
    /\ config.IncludeSpanContext
    /\ Listed(config, "span.attributes")
    /\ k_traceState \in DOMAIN TheSpan.Attributes
    /\ TheSpan.TraceState = v_traceState
    /\ TheRecord.TraceID = 7
    /\ HasStr(TheRecord, k_traceState, v_traceState)
    /\ HasStr(TheRecord, k_spanKind, t_Unspecified)

\* C15 as stated: when attribute_mappings.event_name is a non-empty key, that
\* attribute of the record is the event name, whatever the body mapping did and
\* whatever attributes the event and the span carry.
C15_EventName ==
    (Converted /\ config.AttributeMappings.EventName # "") =>
        HasStr(TheRecord, config.AttributeMappings.EventName, TheEvent.Name)

\* The span context writes the attribute key
ContextWrites(cfg, span, key) ==
    /\ cfg.IncludeSpanContext
    /\ \/ key \in {k_spanName, k_spanKind}
       \/ key = k_traceState /\ span.TraceState # t_empty

\* C15, amended: the same unless a later step writes the key: the span
\* attributes are copied and the span carries the key, or span context is
\* included and the key is "span.name", "span.kind" or (with a non-empty trace
\* state) "trace.state".
C15_EventNameUnlessOverwritten ==
    (/\ Converted
     /\ config.AttributeMappings.EventName # ""
     /\ ~(/\ Listed(config, "span.attributes")
          /\ config.AttributeMappings.EventName \in DOMAIN TheSpan.Attributes)
     /\ ~ContextWrites(config, TheSpan, config.AttributeMappings.EventName)) =>
        HasStr(TheRecord, config.AttributeMappings.EventName, TheEvent.Name)

\* The event carries "peer", the body is the mapped "msg", and the record's
\* "peer" is the event name
C15_Witness ==
    /\ Converted
    /\ config.AttributeMappings.EventName = "peer"
    /\ Listed(config, "event.attributes")
    /\ "peer" \in DOMAIN TheEvent.Attributes
    /\ TheRecord.Body = StrValue(v_message)
    /\ HasStr(TheRecord, "peer", n_custom)

(***************************************************************************)
(* The default configuration: a connector built from the configuration of  *)
(* the factory, on the batches of the walk                                 *)
(***************************************************************************)
\* createDefaultConfig
createDefaultConfig ==
    [ZeroConfig EXCEPT !.IncludeSpanContext = TRUE,
                       !.LogAttributesFrom = <<"event.attributes">>,
                       !.SeverityByEventName = n_exception :> t_error]

InitDefault == InitWith({createDefaultConfig})

SpecDefault == InitDefault /\ [][Next]_vars

\* C16: the default configuration of the factory has include_span_context =
\* true, log_attributes_from = ["event.attributes", "resource.attributes"],
\* severity_by_event_name = {"exception": "error"} and add_level = false.
C16_DefaultConfig ==
    /\ config.IncludeSpanContext
    /\ config.LogAttributesFrom = <<"event.attributes", "resource.attributes">>
    /\ config.SeverityByEventName = (n_exception :> t_error)
    /\ ~config.AddLevel

(***************************************************************************)
(* Properties of the groups of the walk                                    *)
(***************************************************************************)
\* Every Resource group has a Scope group and every Scope group has a record
NonEmptyGroups(logs) ==
    \A n \in DOMAIN logs :
        /\ Len(logs[n].ScopeLogs) > 0
        /\ \A j \in DOMAIN logs[n].ScopeLogs : Len(logs[n].ScopeLogs[j].LogRecords) > 0

\* Every Resource group and every Scope group in it come from a Resource and a
\* Scope of the input with an event that passes the filter
FromQualifying(cfg, td, logs) ==
    \A n \in DOMAIN logs :
        /\ \E p \in Qualifying(cfg, td) :
               logs[n].Resource.Attributes =
                   IF Listed(cfg, "resource.attributes")
                   THEN td[p.i].Resource.Attributes
                   ELSE EmptyMap
        /\ \A j \in DOMAIN logs[n].ScopeLogs :
               \E p \in Qualifying(cfg, td) :
                   logs[n].ScopeLogs[j].Scope = td[p.i].ScopeSpans[p.j].Scope

\* The output batch after each event of the walk over td, the first and the
\* last included
WalkPoints(cfg, nameSet, td) ==
    {Walk(cfg, nameSet, NewLogs, td, SubSeq(EventsFrom(td, 1, 1, 1, 1), 1, n), 0, orders, 1000) :
        n \in 0..NumEvents(td), orders \in Orders(cfg, td)}

\* C19: group creation is lazy: after every event of the walk and in the batch
\* handed over, every Resource group has at least one Scope group and every
\* Scope group at least one record, and a Resource or Scope of the input none
\* of whose events passes the filter has no group.
C19_LazyGroups ==
    /\ \A b \in DOMAIN allLogs :
           NonEmptyGroups(allLogs[b]) /\ FromQualifying(config, traces, allLogs[b])
    /\ Returned =>
           \A logs \in WalkPoints(config, eventNameSet, traces) :
               NonEmptyGroups(logs) /\ FromQualifying(config, traces, logs)

\* Only "exception" is listed; the input has a Scope "span" whose events are
\* all "custom", and the batch handed over has no Scope group "span"
C19_Witness ==
    /\ Returned
    /\ config.IncludeEventNames = <<n_exception>>
    /\ \E i \in DOMAIN traces : \E j \in DOMAIN traces[i].ScopeSpans :
           /\ traces[i].ScopeSpans[j].Scope.Name = v_span
           /\ \E k \in DOMAIN traces[i].ScopeSpans[j].Spans :
                  Len(traces[i].ScopeSpans[j].Spans[k].Events) > 0
    /\ Len(allLogs) = 1
    /\ \A n \in DOMAIN allLogs[1] : \A j \in DOMAIN allLogs[1][n].ScopeLogs :
           allLogs[1][n].ScopeLogs[j].Scope.Name = v_scope

(***************************************************************************)
(* The input of an invocation                                              *)
(***************************************************************************)
\* C20: ConsumeTraces leaves its input batch as it was before the call, whether
\* the logs consumer was called and succeeded, was not called, or failed; the
\* writes to the output batch do not reach the input.
C20_InputUnchanged ==
    [][ret = NotCalled /\ ret' # NotCalled => traces' = traces]_vars

\* The logs consumer has failed on a batch whose Resource attributes were
\* cleared, and the Resources of the input still have theirs
C20_Witness ==
    /\ Returned
    /\ ret # Nil
    /\ Len(allLogs) = 1
    /\ ~Listed(config, "resource.attributes")
    /\ \A n \in DOMAIN allLogs[1] : allLogs[1][n].Resource.Attributes = EmptyMap
    /\ \E i \in DOMAIN traces : traces[i].Resource.Attributes # EmptyMap

(***************************************************************************)
(* Concurrent invocations on one Connector                                 *)
(***************************************************************************)
ConcurrentConfigs ==
    {cfg \in WalkConfigs : /\ cfg.IncludeSpanContext
                           /\ cfg.IncludeEventNames \in {<<>>, <<n_exception>>}}

\* The batches of the goroutines: one ResourceSpans each
ConcurrentTraces == {<<rs>> : rs \in WalkResourceSpans}

InitConcurrent == InitWith(ConcurrentConfigs)

NextConcurrent ==
    \/ \E g \in Callers, td \in ConcurrentTraces : EnterConsumeTraces(g, td)
    \/ \E g \in Callers, now \in Clock :
           \E order \in Perms(DOMAIN config.SeverityByEventName) : LoopStep(g, order, now)
    \/ \E g \in Callers, err \in ConsumerErrors : ReturnFromConsumeTraces(g, err)
    \/ ResetSink

SpecConcurrent == InitConcurrent /\ [][NextConcurrent]_vars

\* A batch with the observed timestamps of its records left out
Unobserved(logs) ==
    [n \in DOMAIN logs |->
        [logs[n] EXCEPT !.ScopeLogs =
            [j \in DOMAIN logs[n].ScopeLogs |->
                [logs[n].ScopeLogs[j] EXCEPT !.LogRecords =
                    [r \in DOMAIN logs[n].ScopeLogs[j].LogRecords |->
                        [logs[n].ScopeLogs[j].LogRecords[r] EXCEPT !.ObservedTimestamp = 0]]]]]]

\* The batches an invocation on td alone can build
Alone(td) ==
    {Unobserved(extractLogsFromTraces(config, eventNameSet, td, orders, now)) :
        orders \in Orders(config, td), now \in Clock}

\* Every call that has returned has handed the sink the batch of a call alone,
\* or nothing if that batch has no records
AsAlone ==
    \A g \in Callers :
        calls[g].pc = "returned" =>
            IF calls[g].at = 0
            THEN \E logs \in Alone(calls[g].traces) : ~ShouldConsume(logs)
            ELSE /\ calls[g].at \in DOMAIN allLogs
                 /\ Unobserved(allLogs[calls[g].at]) \in Alone(calls[g].traces)

\* C21: no step of an invocation writes to the Connector's configuration or
\* event-name set, and in every interleaving of the invocations of two
\* goroutines on batches of their own each invocation hands the sink the batch
\* it would hand over when run alone, observed timestamps aside, so that no
\* record of one input is in the batch of another.
C21_NoSharedState ==
    [][config' = config /\ eventNameSet' = eventNameSet /\ AsAlone]_vars

\* Both goroutines were in their loops together and have handed over batches of
\* different inputs, the one that entered second returning first
C21_Witness ==
    /\ calls["a"].pc = "returned"
    /\ calls["b"].pc = "returned"
    /\ calls["a"].at = 2
    /\ calls["b"].at = 1
    /\ calls["a"].traces # calls["b"].traces
    /\ allLogs[1] # allLogs[2]

(***************************************************************************)
(* Resources with attributes of their own                                  *)
(***************************************************************************)
\* ResourceSpans whose resources differ and whose events have timestamps of
\* their own
ResourcePool ==
    { MkResourceSpans(ServiceAttrs,
          <<MkScopeSpans(v_scope,
                <<MkSpan(v_span, 1, SpanAttrs,
                         <<MkEvent(n_exception, 10, "exception.type" :> StrValue(v_NPE)),
                           MkEvent(n_custom, 11, EmptyMap)>>)>>)>>),
      MkResourceSpans("host.name" :> StrValue(v_GET),
          <<MkScopeSpans(v_scope, <<MkSpan(v_span, 2, SpanAttrs, <<MkEvent(n_custom, 20, EmptyMap)>>)>>),
            MkScopeSpans(v_span, <<MkSpan(v_span, 3, SpanAttrs, <<MkEvent(n_exception, 21, EmptyMap)>>)>>)>>),
      MkResourceSpans(EmptyMap,
          <<MkScopeSpans(v_span, <<MkSpan(v_span, 4, EmptyMap, <<MkEvent(n_exception, 30, EmptyMap)>>)>>)>>) }

ResourceConfigs ==
    {[ZeroConfig EXCEPT !.IncludeEventNames = names, !.LogAttributesFrom = from] :
        names \in {<<>>, <<n_exception>>},
        from \in {<<>>, <<"event.attributes", "span.attributes">>, <<"resource.attributes">>,
                  <<"event.attributes", "span.attributes", "resource.attributes">>}}

InitResources == InitWith(ResourceConfigs)

NextResources == NextWith(ResourcePool, MaxResourceSpans, {1000}, {Nil})

SpecResources == InitResources /\ [][NextResources]_vars

\* The event at position p of a batch
EventAt(td, p) == td[p.i].ScopeSpans[p.j].Spans[p.k].Events[p.l]

\* The positions of the qualifying events a record can come from: those with
\* the timestamp of the record
SourcesOf(cfg, td, logRecord) ==
    {p \in Qualifying(cfg, td) : EventAt(td, p).Timestamp = logRecord.Timestamp}

\* C26: the attributes of every Resource group of the output are those of its
\* source Resource when "resource.attributes" is listed in log_attributes_from
\* and empty otherwise, and no attribute of a resource is written to the
\* attribute map of a log record.
C26_ResourceAttributes ==
    \A b \in DOMAIN allLogs : \A n \in DOMAIN allLogs[b] :
        /\ allLogs[b][n].ScopeLogs # <<>>
        /\ \A j \in DOMAIN allLogs[b][n].ScopeLogs :
               \A r \in DOMAIN allLogs[b][n].ScopeLogs[j].LogRecords :
                   /\ SourcesOf(config, traces, allLogs[b][n].ScopeLogs[j].LogRecords[r]) # {}
                   /\ \A p \in SourcesOf(config, traces, allLogs[b][n].ScopeLogs[j].LogRecords[r]) :
                          /\ allLogs[b][n].Resource.Attributes =
                                 IF Listed(config, "resource.attributes")
                                 THEN traces[p.i].Resource.Attributes
                                 ELSE EmptyMap
                          /\ \A key \in DOMAIN traces[p.i].Resource.Attributes :
                                 key \notin DOMAIN allLogs[b][n].ScopeLogs[j].LogRecords[r].Attributes

\* Resources with different attributes were converted without
\* "resource.attributes": the groups have no attributes
C26_Witness ==
    /\ Returned
    /\ Len(allLogs) = 1
    /\ Len(traces) = 2
    /\ traces[1].Resource.Attributes # traces[2].Resource.Attributes
    /\ traces[1].Resource.Attributes # EmptyMap
    /\ ~Listed(config, "resource.attributes")
    /\ Len(allLogs[1]) >= 2
    /\ \A n \in DOMAIN allLogs[1] : allLogs[1][n].Resource.Attributes = EmptyMap

\* The qualifying events of a batch in the order of the walk
QualifyingSeq(cfg, td) ==
    SelectSeq(EventsFrom(td, 1, 1, 1, 1), LAMBDA p : p \in Qualifying(cfg, td))

\* The places <<n, j, r>> of the records of a batch: Resource group n, Scope
\* group j, record r
Places(logs) ==
    UNION {UNION {{<<n, j, r>> : r \in DOMAIN logs[n].ScopeLogs[j].LogRecords} :
                     j \in DOMAIN logs[n].ScopeLogs} :
              n \in DOMAIN logs}

\* Place a is read before place b
ReadBefore(a, b) ==
    \/ a[1] < b[1]
    \/ a[1] = b[1] /\ a[2] < b[2]
    \/ a[1] = b[1] /\ a[2] = b[2] /\ a[3] < b[3]

\* The rank of a place in the reading order of the batch
Rank(logs, pl) == Cardinality({a \in Places(logs) : ReadBefore(a, pl)}) + 1

\* The record at a place is the record of the event at position p: it has its
\* timestamp and sits in a group with the Scope and the Resource of p
RecordOf(cfg, td, logs, pl, p) ==
    /\ logs[pl[1]].ScopeLogs[pl[2]].LogRecords[pl[3]].Timestamp = EventAt(td, p).Timestamp
    /\ logs[pl[1]].ScopeLogs[pl[2]].LogRecords[pl[3]].Body =
           SetBody(NewLogRecord, cfg, EventAt(td, p)).Body
    /\ logs[pl[1]].ScopeLogs[pl[2]].Scope = td[p.i].ScopeSpans[p.j].Scope
    /\ logs[pl[1]].Resource.Attributes =
           IF Listed(cfg, "resource.attributes") THEN td[p.i].Resource.Attributes ELSE EmptyMap

\* C28: the records of the output batch, read Resource group by Resource group,
\* Scope group by Scope group and record by record, are one for one and in the
\* same order the qualifying events of the input read in the order of the walk;
\* each record has the timestamp of its event and is in a group of the Resource
\* and the Scope its event came from.
C28_WalkOrder ==
    \A b \in DOMAIN allLogs :
        /\ Cardinality(Places(allLogs[b])) = Len(QualifyingSeq(config, traces))
        /\ \A pl \in Places(allLogs[b]) :
               RecordOf(config, traces, allLogs[b], pl,
                        QualifyingSeq(config, traces)[Rank(allLogs[b], pl)])

\* The timestamps of the records of a batch in reading order
Timestamps(logs) ==
    [r \in DOMAIN Flatten(Flatten(logs, "ScopeLogs"), "LogRecords") |->
        Flatten(Flatten(logs, "ScopeLogs"), "LogRecords")[r].Timestamp]

\* Of a resource with the events of timestamps 20 and 21 followed by one with
\* those of timestamps 10 and 11, only the "exception" events qualify: the
\* records are those of 21 and 10, in this order
C28_Witness ==
    /\ Returned
    /\ Len(allLogs) = 1
    /\ Len(traces) = 2
    /\ config.IncludeEventNames = <<n_exception>>
    /\ Len(traces[1].ScopeSpans) = 2
    /\ Timestamps(allLogs[1]) = <<21, 10>>

=============================================================================
